---- MODULE Spec2Model ----
(***************************************************************************)
(* A model of the teacher-assessment server (improved_server.py): the      *)
(* SQLite tables, the HTTP handlers, the analysis engine and the WebSocket *)
(* connection manager; of the registration of simple_backend.py; and of   *)
(* the WebSocket rooms and the rate limiter of backend/main.py.            *)
(*                                                                         *)
(* Numbers.  Every metric and score of the program is a float that carries *)
(* at most one decimal.  The model holds them in TENTHS as integers:       *)
(* 700 stands for 70.0, 849 for 84.9.  A Python dict is a function whose   *)
(* DOMAIN is the set of its keys; dict.get(k, d) is Get.                   *)
(***************************************************************************)
EXTENDS Integers, Sequences, FiniteSets, TLC

VARIABLES
    assessments,            \* table assessments: id -> row, absent ids not in DOMAIN
    assessment_data,        \* table assessment_data: the rows, in insertion order
    recommendations,        \* table recommendations: the rows, in insertion order
    active_connections,     \* ConnectionManager.active_connections (a list)
    assessment_connections, \* ConnectionManager.assessment_connections (a dict)
    sockets,                \* each WebSocket: its peer's state and its path id
    inbox,                  \* the messages each WebSocket's client has been sent (kind and id)
    now,                    \* CURRENT_TIMESTAMP, in seconds
    response,               \* the HTTP response most recently returned
    accepted,               \* per id a body names: its ingest requests answered 200 (history)
    call,                   \* the pure function most recently applied, with its arguments
    ret,                    \* and what it returned
    users_db,               \* simple_backend.users_db (a list)
    reg,                    \* each client's register request: where it stands, its answer
    flight,                 \* each ingest request on the event loop: where it stands
    delivered,              \* per WebSocket: the rowids whose live update it was written
    rooms,                  \* backend/main.py rooms: id -> the list of its WebSockets
    members,                \* each WebSocket of /ws/rooms: its state, its room, its texts
    room_inbox,             \* the texts each WebSocket of /ws/rooms has been forwarded
    RATE_BUCKET,            \* backend/main.py RATE_BUCKET: ip -> the list of its timestamps
    admissions              \* per ip: the times of all its admitted requests (history)

vars == << assessments, assessment_data, recommendations, active_connections,
           assessment_connections, sockets, inbox, now, response, accepted,
           call, ret, users_db, reg, flight, delivered, rooms, members,
           room_inbox, RATE_BUCKET, admissions >>

serverVars == << assessments, assessment_data, recommendations, active_connections,
                 assessment_connections, sockets, inbox, now, response, accepted >>

pureVars == << call, ret >>

authVars == << users_db, reg >>

loopVars == << flight, delivered >>

roomVars == << rooms, members, room_inbox >>

rateVars == << RATE_BUCKET, admissions >>

\* What the handlers of improved_server.py, each run as one step, never touch.
extVars == << authVars, loopVars, roomVars, rateVars >>

\* ------------------------------------------------------------------ bounds

MaxRows == 2        \* rows of assessment_data
MaxRecRows == 2     \* rows of recommendations
MaxInbox == 2       \* messages kept per WebSocket client
MaxTime == 2        \* seconds the clock runs
MaxTexts == 1       \* texts a WebSocket of /ws/rooms sends
MaxRoomInbox == 2   \* texts kept per WebSocket of /ws/rooms
MaxClock == 91      \* the second up to which the rate limiter is followed

\* settings.RATE_LIMIT_PER_MINUTE, read from the environment (120 where unset):
\* the limiter is followed for a small limit.
RATE_LIMIT_PER_MINUTE == 3

Ids == {"a1", "a2"}
WebSockets == {"w1", "w2"}
Clients == {"r1", "r2"}
Requests == {"q1", "q2"}
RoomSockets == {"s1", "s2", "s3"}
Hosts == {"ip1", "ip2"}

\* ------------------------------------------------------------------ helpers

NoDict == [k \in {} |-> 0]

Get(d, k, default) == IF k \in DOMAIN d THEN d[k] ELSE default

Min(a, b) == IF a <= b THEN a ELSE b

\* round(x, 1) of x = num/den tenths.  Python rounds the double it holds: a value
\* that is not half-way goes to the nearest tenth; a decimal half-way value is held
\* as a double just above or just below it (or exactly, and then goes to the even
\* neighbour), so either neighbour is a possible result.
Round1(num, den) ==
    LET q == num \div den
        r == num % den
    IN  IF 2 * r < den THEN {q}
        ELSE IF 2 * r > den THEN {q + 1}
        ELSE {q, q + 1}

RECURSIVE SeqSum(_)
SeqSum(s) == IF s = << >> THEN 0 ELSE Head(s) + SeqSum(Tail(s))

\* ------------------------------------------------------------------ analyzers

\* VoiceAnalyzer._simulate_voice_analysis: round(70 + random()*25, 1) and so on.
\* The draws are values of each range, its two ends among them.
SimVoice ==
    { [ confidence |-> 700, volume |-> 650, clarity |-> 750, audibility |-> 800 ],
      [ confidence |-> 825, volume |-> 950, clarity |-> 950, audibility |-> 950 ] }

\* FacialAnalyzer._simulate_facial_analysis.
SimFacial ==
    { [ emotion |-> "engaged", engagement_level |-> 950, expression_variety |-> 950 ] }

\* AIAnalysisEngine._calculate_teaching_metrics: the set of dicts it may return
\* (one, unless the interaction score falls half-way between two tenths).
\* It reads facial_metrics under the key 'engagement'.
_calculate_teaching_metrics(voice_metrics, facial_metrics) ==
    LET twice == Get(voice_metrics, "confidence", 500)
                    + Get(facial_metrics, "engagement", 500)
        interaction_score == IF twice >= 2000 THEN {1000} ELSE Round1(twice, 2)
        example_usage == Min(1000, Get(voice_metrics, "clarity", 500) + 200)
        student_engagement == Min(1000, Get(facial_metrics, "engagement", 500) + 150)
    IN  { [ interaction_level |-> i, example_usage |-> example_usage,
            student_engagement |-> student_engagement ] : i \in interaction_score }

\* AIAnalysisEngine._get_fallback_metrics (the timestamp is left out).
_get_fallback_metrics ==
    [ voice_metrics |-> [ confidence |-> 700, volume |-> 650, clarity |-> 750,
                          audibility |-> 800 ],
      facial_metrics |-> [ emotion |-> "neutral", engagement_level |-> 700,
                           expression_variety |-> 650 ],
      teaching_metrics |-> [ interaction_level |-> 700, example_usage |-> 750,
                             student_engagement |-> 700 ] ]

\* AIAnalysisEngine.analyze_realtime_data: what it may return.  The analyzers
\* ignore the request's data and draw their metrics; where numpy is missing the
\* draw raises NameError and the except branch returns the fallback metrics.
analyze_realtime_data(data) ==
    UNION { { [ voice_metrics |-> v, facial_metrics |-> f, teaching_metrics |-> t ] :
                t \in _calculate_teaching_metrics(v, f) } :
            <<v, f>> \in SimVoice \X SimFacial }
    \cup { _get_fallback_metrics }

\* ------------------------------------------------------------------ scoring

\* AIAnalysisEngine._aggregate_metrics: the same dict whatever the data points.
_aggregate_metrics(data_points) ==
    [ voice_metrics |-> [ confidence |-> 750, volume |-> 700, clarity |-> 800,
                          audibility |-> 750 ],
      facial_metrics |-> [ emotion |-> "confident", engagement_level |-> 780,
                           expression_variety |-> 720 ],
      teaching_metrics |-> [ interaction_level |-> 760, example_usage |-> 820,
                             student_engagement |-> 740 ] ]

ScoreKeys ==
    { <<"voice_metrics", "confidence">>, <<"voice_metrics", "audibility">>,
      <<"voice_metrics", "clarity">>, <<"facial_metrics", "engagement_level">>,
      <<"facial_metrics", "expression_variety">>,
      <<"teaching_metrics", "interaction_level">>,
      <<"teaching_metrics", "example_usage">>,
      <<"teaching_metrics", "student_engagement">> }

\* metrics[group][key] raises KeyError where the group or the key is missing.
HasScoreKeys(metrics) ==
    \A gk \in ScoreKeys : gk[1] \in DOMAIN metrics /\ gk[2] \in DOMAIN metrics[gk[1]]

\* voice_score with the weights of confidence and audibility exchanged.
voice_score_swapped(metrics) ==
    metrics.voice_metrics.confidence * 4 + metrics.voice_metrics.audibility * 3
        + metrics.voice_metrics.clarity * 3

\* The three sub-scores, each ten times its value (the weights are tenths).
voice_score(metrics) ==
    metrics.voice_metrics.confidence * 3 + metrics.voice_metrics.audibility * 4
        + metrics.voice_metrics.clarity * 3

facial_score(metrics) ==
    metrics.facial_metrics.engagement_level * 6
        + metrics.facial_metrics.expression_variety * 4

teaching_score(metrics) ==
    metrics.teaching_metrics.interaction_level * 4
        + metrics.teaching_metrics.example_usage * 3
        + metrics.teaching_metrics.student_engagement * 3

\* AIAnalysisEngine._calculate_overall_score: the outcomes it may have, each
\* [raised, score]: a KeyError, or the blend rounded to one decimal.
_calculate_overall_score(metrics) ==
    IF ~HasScoreKeys(metrics)
    THEN { [ raised |-> "KeyError", score |-> 0 ] }
    ELSE { [ raised |-> "", score |-> s ] :
             s \in Round1(voice_score(metrics) * 4 + facial_score(metrics) * 3
                              + teaching_score(metrics) * 3, 100) }

\* _determine_eligibility with its first comparison strict.
_determine_eligibility_strict(score) ==
    IF score > 850 THEN "eligible"
    ELSE IF score >= 700 THEN "needs-improvement"
    ELSE "not-eligible"

\* AIAnalysisEngine._determine_eligibility.
_determine_eligibility(score) ==
    IF score >= 850 THEN "eligible"
    ELSE IF score >= 700 THEN "needs-improvement"
    ELSE "not-eligible"

\* ------------------------------------------------------------------ recommendations

Rec(category, priority, title) ==
    [ category |-> category, priority |-> priority, title |-> title ]

\* generate_recommendations with its second test made an elif of the first.
generate_recommendations_elif(metrics) ==
    LET voice_metrics == Get(metrics, "voice_metrics", NoDict)
        facial_metrics == Get(metrics, "facial_metrics", NoDict)
        teaching_metrics == Get(metrics, "teaching_metrics", NoDict)
    IN  (IF Get(voice_metrics, "confidence", 1000) < 700
            THEN << Rec("voice", "high", "Improve Voice Confidence") >>
            ELSE IF Get(voice_metrics, "audibility", 1000) < 750
            THEN << Rec("voice", "high", "Enhance Voice Projection") >> ELSE << >>)
        \o (IF Get(facial_metrics, "engagement_level", 1000) < 700
            THEN << Rec("engagement", "medium", "Increase Facial Expressiveness") >>
            ELSE << >>)
        \o (IF Get(teaching_metrics, "interaction_level", 1000) < 800
            THEN << Rec("teaching", "medium", "Increase Student Interaction") >>
            ELSE << >>)
        \o (IF Get(teaching_metrics, "example_usage", 1000) < 750
            THEN << Rec("teaching", "low", "Use More Examples") >> ELSE << >>)

\* RecommendationEngine.generate_recommendations (the descriptions are left out).
generate_recommendations(metrics) ==
    LET voice_metrics == Get(metrics, "voice_metrics", NoDict)
        facial_metrics == Get(metrics, "facial_metrics", NoDict)
        teaching_metrics == Get(metrics, "teaching_metrics", NoDict)
    IN  (IF Get(voice_metrics, "confidence", 1000) < 700
            THEN << Rec("voice", "high", "Improve Voice Confidence") >> ELSE << >>)
        \o (IF Get(voice_metrics, "audibility", 1000) < 750
            THEN << Rec("voice", "high", "Enhance Voice Projection") >> ELSE << >>)
        \o (IF Get(facial_metrics, "engagement_level", 1000) < 700
            THEN << Rec("engagement", "medium", "Increase Facial Expressiveness") >>
            ELSE << >>)
        \o (IF Get(teaching_metrics, "interaction_level", 1000) < 800
            THEN << Rec("teaching", "medium", "Increase Student Interaction") >>
            ELSE << >>)
        \o (IF Get(teaching_metrics, "example_usage", 1000) < 750
            THEN << Rec("teaching", "low", "Use More Examples") >> ELSE << >>)

\* ------------------------------------------------------------------ final report

\* AIAnalysisEngine._get_fallback_result.
_get_fallback_result(assessment_id) ==
    [ assessment_id |-> assessment_id, overall_score |-> 750,
      eligibility |-> "needs-improvement",
      recommendations |-> << Rec("general", "medium", "Continue Practice") >>,
      detailed_analysis |-> NoDict ]

\* AIAnalysisEngine.generate_final_report: the results it may return, given the
\* rows of assessment_data selected for assessment_id.
generate_final_report(assessment_id, data_points) ==
    IF data_points = << >>
    THEN { _get_fallback_result(assessment_id) }
    ELSE LET aggregated_metrics == _aggregate_metrics(data_points)
         IN  { IF o.raised # ""
               THEN _get_fallback_result(assessment_id)
               ELSE [ assessment_id |-> assessment_id, overall_score |-> o.score,
                      eligibility |-> _determine_eligibility(o.score),
                      recommendations |-> generate_recommendations(aggregated_metrics),
                      detailed_analysis |-> aggregated_metrics ] :
               o \in _calculate_overall_score(aggregated_metrics) }

\* ------------------------------------------------------------------ database

NULL == 0

\* A row of assessments as INSERT leaves it: the column defaults.
NewAssessment ==
    [ status |-> "pending", started_at |-> NULL, completed_at |-> NULL,
      overall_score |-> 0, eligibility |-> "not-eligible", raw_data |-> << >> ]

\* SELECT * FROM assessment_data WHERE assessment_id = ?
DataPoints(table, assessment_id) ==
    SelectSeq(table, LAMBDA row : row.assessment_id = assessment_id)

\* DatabaseManager.update_assessment_status: an UPDATE ... WHERE id = ?, which
\* changes no row where the id is absent.
update_assessment_status(table, assessment_id, status) ==
    IF assessment_id \notin DOMAIN table THEN table
    ELSE IF status = "in-progress"
    THEN [ table EXCEPT ![assessment_id].status = status,
                        ![assessment_id].started_at = now ]
    ELSE [ table EXCEPT ![assessment_id].status = status,
                        ![assessment_id].completed_at = now ]

\* DatabaseManager.save_assessment_data: one INSERT, under the id the body
\* carries.  SQLite does not enforce the foreign key (no PRAGMA foreign_keys).
db_save_assessment_data(table, data) ==
    Append(table, [ assessment_id |-> data.assessment_id,
                    voice_metrics |-> data.voice_metrics,
                    facial_metrics |-> data.facial_metrics,
                    teaching_metrics |-> data.teaching_metrics ])

\* DatabaseManager.save_assessment_result, its UPDATE of assessments.
save_result_row(table, result) ==
    IF result.assessment_id \notin DOMAIN table THEN table
    ELSE [ table EXCEPT ![result.assessment_id].overall_score = result.overall_score,
                        ![result.assessment_id].eligibility = result.eligibility,
                        ![result.assessment_id].raw_data = << result.detailed_analysis >> ]

\* DatabaseManager.save_assessment_result, its INSERTs into recommendations.
save_result_recommendations(table, result) ==
    table \o [ i \in 1..Len(result.recommendations) |->
                 [ assessment_id |-> result.assessment_id,
                   rec |-> result.recommendations[i] ] ]

\* ------------------------------------------------------------------ requests

\* The bodies POST /api/assessments/{id}/data is sent (AssessmentData).
Bodies ==
    [ assessment_id : Ids,
      voice_metrics : { [ confidence |-> 600, volume |-> 600, clarity |-> 650,
                          audibility |-> 700 ],
                        [ confidence |-> 900, volume |-> 900, clarity |-> 900,
                          audibility |-> 900 ],
                        [ confidence |-> 1500, volume |-> -200, clarity |-> 900,
                          audibility |-> 900 ] },
      facial_metrics : { [ engagement_level |-> 600, expression_variety |-> 600 ] },
      teaching_metrics : { [ interaction_level |-> 600, example_usage |-> 850,
                             student_engagement |-> 750 ] } ]

NoResponse == [ op |-> "none", id |-> "", code |-> 0, body |-> << >> ]

Response(op, id, code, body) == [ op |-> op, id |-> id, code |-> code, body |-> body ]

\* A client that has sent no register request yet.
NoRequest == [ pc |-> "idle", data |-> NoDict, code |-> 0, success |-> FALSE ]

\* An ingest request slot with no request in it.
NoFlight == [ pc |-> "idle", id |-> "", under |-> "", ws |-> "", analysis |-> << >> ]

Init ==
    /\ assessments = [ a \in {} |-> NewAssessment ]
    /\ assessment_data = << >>
    /\ recommendations = << >>
    /\ active_connections = << >>
    /\ assessment_connections = [ a \in {} |-> "" ]
    /\ sockets = [ w \in WebSockets |-> [ state |-> "idle", path |-> "" ] ]
    /\ inbox = [ w \in WebSockets |-> << >> ]
    /\ now = 1
    /\ response = NoResponse
    /\ accepted = [ a \in Ids |-> 0 ]
    /\ call = [ fn |-> "none", args |-> << >> ]
    /\ ret = << >>
    /\ users_db = << >>
    /\ reg = [ r \in Clients |-> NoRequest ]
    /\ flight = [ q \in Requests |-> NoFlight ]
    /\ delivered = [ w \in WebSockets |-> << >> ]
    /\ rooms = [ a \in {} |-> << >> ]
    /\ members = [ ws \in RoomSockets |-> [ state |-> "idle", room |-> "", texts |-> 0 ] ]
    /\ room_inbox = [ ws \in RoomSockets |-> << >> ]
    /\ RATE_BUCKET = [ ip \in {} |-> << >> ]
    /\ admissions = [ ip \in Hosts |-> << >> ]

\* POST /api/assessments/create.  The id is made of the second and of a hash of
\* the teacher's name: a request may draw an id the table holds, and the INSERT
\* then fails on the primary key (500).
create_assessment(assessment_id) ==
    /\ IF assessment_id \in DOMAIN assessments
       THEN /\ response' = Response("create", assessment_id, 500, << >>)
            /\ UNCHANGED assessments
       ELSE /\ assessments' = [ a \in DOMAIN assessments \cup {assessment_id} |->
                                  IF a = assessment_id THEN NewAssessment
                                  ELSE assessments[a] ]
            /\ response' = Response("create", assessment_id, 200, << >>)
    /\ UNCHANGED << assessment_data, recommendations, active_connections,
                    assessment_connections, sockets, inbox, now, accepted, pureVars, extVars >>

\* POST /api/assessments/{assessment_id}/start.
start_assessment(assessment_id) ==
    /\ assessments' = update_assessment_status(assessments, assessment_id, "in-progress")
    /\ response' = Response("start", assessment_id, 200, << >>)
    /\ UNCHANGED << assessment_data, recommendations, active_connections,
                    assessment_connections, sockets, inbox, now, accepted, pureVars, extVars >>

\* send_to_assessment without its membership test: the lookup of an id that has
\* no connection raises.
send_to_assessment_unguarded(assessment_id) ==
    IF assessment_id \notin DOMAIN assessment_connections THEN {"raised"}
    ELSE IF sockets[assessment_connections[assessment_id]].state = "open" THEN {"sent"}
    ELSE {"raised", "lost"}

\* ConnectionManager.send_to_assessment: the outcomes it may have.  "none": the
\* id has no connection; "sent": send_text went through; and where the peer is
\* gone either "raised" (send_text raises) or "lost" (the server drops the
\* frame without a word), as the ASGI server in use has it.
send_to_assessment(assessment_id) ==
    IF assessment_id \notin DOMAIN assessment_connections THEN {"none"}
    ELSE IF sockets[assessment_connections[assessment_id]].state = "open" THEN {"sent"}
    ELSE {"raised", "lost"}

\* POST /api/assessments/{assessment_id}/data.  The row is committed first; the
\* live update goes to the connection of the path's id; an exception of the
\* send is answered 500.
save_assessment_data(assessment_id, data) ==
    /\ Len(assessment_data) < MaxRows
    /\ assessment_data' = db_save_assessment_data(assessment_data, data)
    /\ \E analysis \in analyze_realtime_data(data) :
       \E sent \in send_to_assessment(assessment_id) :
         LET ws == assessment_connections[assessment_id]
         IN  /\ sent = "sent" => Len(inbox[ws]) < MaxInbox
             /\ inbox' = IF sent = "sent"
                         THEN [ inbox EXCEPT ![ws] =
                                  Append(@, [ kind |-> "live-update",
                                              id |-> assessment_id ]) ]
                         ELSE inbox
             /\ response' = IF sent = "raised"
                            THEN Response("data", assessment_id, 500, << >>)
                            ELSE Response("data", assessment_id, 200, << analysis >>)
             /\ accepted' = IF sent = "raised" THEN accepted
                            ELSE [ accepted EXCEPT ![data.assessment_id] = @ + 1 ]
    /\ UNCHANGED << assessments, recommendations, active_connections,
                    assessment_connections, sockets, now, pureVars, extVars >>

\* POST /api/assessments/{assessment_id}/complete.  save_assessment_result may
\* fail (sqlite3 raises: the database is locked, the disk is full): nothing of
\* its transaction is committed, update_assessment_status is not reached and
\* the except branch answers 500.
complete_assessment(assessment_id) ==
    \E result \in generate_final_report(assessment_id,
                                        DataPoints(assessment_data, assessment_id)) :
      \E saved \in BOOLEAN :
        /\ saved => Len(recommendations) + Len(result.recommendations) <= MaxRecRows
        /\ recommendations' = IF saved
                               THEN save_result_recommendations(recommendations, result)
                               ELSE recommendations
        /\ assessments' = IF saved
                           THEN update_assessment_status(
                                    save_result_row(assessments, result),
                                    assessment_id, "completed")
                           ELSE assessments
        /\ response' = IF saved
                        THEN Response("complete", assessment_id, 200, << result >>)
                        ELSE Response("complete", assessment_id, 500, << >>)
        /\ UNCHANGED << assessment_data, active_connections, assessment_connections,
                        sockets, inbox, now, accepted, pureVars, extVars >>

\* GET /api/assessments/{assessment_id}.
get_assessment(assessment_id) ==
    /\ response' = IF assessment_id \in DOMAIN assessments
                   THEN Response("get", assessment_id, 200,
                                 << assessments[assessment_id] >>)
                   ELSE Response("get", assessment_id, 404, << >>)
    /\ UNCHANGED << assessments, assessment_data, recommendations, active_connections,
                    assessment_connections, sockets, inbox, now, accepted, pureVars, extVars >>

\* A second of the clock passes.
Tick ==
    /\ now < MaxTime
    /\ now' = now + 1
    /\ UNCHANGED << assessments, assessment_data, recommendations, active_connections,
                    assessment_connections, sockets, inbox, response, accepted,
                    pureVars, extVars >>

\* ------------------------------------------------------------------ WebSockets

\* ConnectionManager.connect: the dict keeps one connection per assessment id.
connect(websocket, assessment_id) ==
    /\ active_connections' = Append(active_connections, websocket)
    /\ assessment_connections' =
         [ a \in DOMAIN assessment_connections \cup {assessment_id} |->
             IF a = assessment_id THEN websocket ELSE assessment_connections[a] ]

\* ConnectionManager.disconnect: the dict's entry of the id goes, whichever
\* connection it holds.
disconnect(websocket, assessment_id) ==
    /\ active_connections' = SelectSeq(active_connections, LAMBDA w : w # websocket)
    /\ assessment_connections' =
         [ a \in DOMAIN assessment_connections \ {assessment_id} |->
             assessment_connections[a] ]

\* websocket_endpoint, up to its first receive_text: a client opens /ws/{id}.
ws_connect(websocket, assessment_id) ==
    /\ sockets[websocket].state = "idle"
    /\ sockets' = [ sockets EXCEPT ![websocket] =
                      [ state |-> "open", path |-> assessment_id ] ]
    /\ connect(websocket, assessment_id)
    /\ inbox' = [ inbox EXCEPT ![websocket] = << >> ]
    /\ UNCHANGED << assessments, assessment_data, recommendations, now, response,
                    accepted, pureVars, extVars >>

\* websocket_endpoint, one turn of its loop: a text arrives and is echoed.
ws_echo(websocket) ==
    /\ sockets[websocket].state = "open"
    /\ Len(inbox[websocket]) < MaxInbox
    /\ inbox' = [ inbox EXCEPT ![websocket] =
                    Append(@, [ kind |-> "echo", id |-> sockets[websocket].path ]) ]
    /\ UNCHANGED << assessments, assessment_data, recommendations, active_connections,
                    assessment_connections, sockets, now, response, accepted,
                    pureVars, extVars >>

\* The client goes away; the handler has not been told yet.
client_close(websocket) ==
    /\ sockets[websocket].state = "open"
    /\ sockets' = [ sockets EXCEPT ![websocket].state = "gone" ]
    /\ UNCHANGED << assessments, assessment_data, recommendations, active_connections,
                    assessment_connections, inbox, now, response, accepted, pureVars, extVars >>

\* websocket_endpoint, its except branch: receive_text raises WebSocketDisconnect.
ws_disconnect(websocket) ==
    /\ sockets[websocket].state = "gone"
    /\ disconnect(websocket, sockets[websocket].path)
    /\ sockets' = [ sockets EXCEPT ![websocket] = [ state |-> "idle", path |-> "" ] ]
    /\ UNCHANGED << assessments, assessment_data, recommendations, inbox, now,
                    response, accepted, pureVars, extVars >>

\* ------------------------------------------------------------------ the engine's functions, applied
\* Each action applies one function of the engine once, to arguments drawn from
\* the sets below, and records the call and what it returned.

\* Scores to classify: 0.0 to 100.0, every tenth.
Scores == 0 .. 1000

\* Snapshots to score and to recommend on: every metric at, just under and away
\* from the thresholds, some out of [0,100], and dicts with keys missing.
Snapshots ==
    [ voice_metrics :
        [ confidence : {0, 695, 700, 1000, 1200}, volume : {650}, clarity : {0, 1000},
          audibility : {745, 750, 1000} ],
      facial_metrics :
        [ emotion : {"neutral"}, engagement_level : {695, 700, 1000},
          expression_variety : {0, 1000} ],
      teaching_metrics :
        [ interaction_level : {0, 795, 800}, example_usage : {745, 750, 1000},
          student_engagement : {-100, 0, 1000} ] ]
    \cup { NoDict,
           [ voice_metrics |-> [ confidence |-> 600 ] ],
           [ voice_metrics |-> [ confidence |-> 600, audibility |-> 600 ],
             facial_metrics |-> [ emotion |-> "neutral", engagement_level |-> 600,
                                  expression_variety |-> 600 ],
             teaching_metrics |-> [ example_usage |-> 600 ] ] }

\* Voice and facial metrics to derive the teaching metrics from: what the
\* analyzers produce, the fallback's, and dicts a client may send.
TeachVoice ==
    SimVoice \cup { _get_fallback_metrics.voice_metrics,
                    [ confidence |-> 600, volume |-> 600, clarity |-> 650,
                      audibility |-> 700 ],
                    [ confidence |-> 1000, volume |-> 1000, clarity |-> 1000,
                      audibility |-> 1000 ],
                    [ confidence |-> -1000, volume |-> 0, clarity |-> -500,
                      audibility |-> 0 ],
                    NoDict }

TeachFacial ==
    SimFacial \cup { _get_fallback_metrics.facial_metrics,
                     [ emotion |-> "neutral", engagement_level |-> 600,
                       expression_variety |-> 600 ],
                     [ emotion |-> "neutral", engagement_level |-> -1000,
                       expression_variety |-> 0 ],
                     [ engagement |-> 900 ],
                     NoDict }

NoCall == [ fn |-> "none", args |-> << >> ]

Call(fn, args) == [ fn |-> fn, args |-> args ]

CallDetermineEligibility ==
    /\ call.fn = "none"
    /\ \E score \in Scores :
        /\ call' = Call("_determine_eligibility", << score >>)
        /\ ret' = << _determine_eligibility(score) >>
        /\ UNCHANGED << serverVars, extVars >>

CallCalculateOverallScore ==
    /\ call.fn = "none"
    /\ \E metrics \in Snapshots : \E o \in _calculate_overall_score(metrics) :
        /\ call' = Call("_calculate_overall_score", << metrics >>)
        /\ ret' = << o >>
        /\ UNCHANGED << serverVars, extVars >>

CallGenerateRecommendations ==
    /\ call.fn = "none"
    /\ \E metrics \in Snapshots :
        /\ call' = Call("generate_recommendations", << metrics >>)
        /\ ret' = << generate_recommendations(metrics) >>
        /\ UNCHANGED << serverVars, extVars >>

CallCalculateTeachingMetrics ==
    /\ call.fn = "none"
    /\ \E v \in TeachVoice, f \in TeachFacial : \E t \in _calculate_teaching_metrics(v, f) :
        /\ call' = Call("_calculate_teaching_metrics", << v, f >>)
        /\ ret' = << t >>
        /\ UNCHANGED << serverVars, extVars >>

NextPure ==
    \/ CallDetermineEligibility
    \/ CallCalculateOverallScore
    \/ CallGenerateRecommendations
    \/ CallCalculateTeachingMetrics

SpecPure == Init /\ [][NextPure]_vars

\* ------------------------------------------------------------------ specifications

\* The HTTP API alone: no WebSocket is opened and the clock stands still.
Next ==
    \/ \E a \in Ids : create_assessment(a)
    \/ \E a \in Ids : start_assessment(a)
    \/ \E a \in Ids, data \in Bodies : save_assessment_data(a, data)
    \/ \E a \in Ids : complete_assessment(a)
    \/ \E a \in Ids : get_assessment(a)

Spec == Init /\ [][Next]_vars

\* The connection manager and the handler that sends through it.
NextHub ==
    \/ \E w \in WebSockets, a \in Ids : ws_connect(w, a)
    \/ \E w \in WebSockets : ws_echo(w)
    \/ \E w \in WebSockets : client_close(w)
    \/ \E w \in WebSockets : ws_disconnect(w)
    \/ \E a \in Ids, data \in Bodies : save_assessment_data(a, data)

SpecHub == Init /\ [][NextHub]_vars

\* The lifecycle with the clock running: started_at and completed_at take the
\* second of the request.
NextClock ==
    \/ \E a \in Ids : create_assessment(a)
    \/ \E a \in Ids : start_assessment(a)
    \/ \E a \in Ids : complete_assessment(a)
    \/ Tick

SpecClock == Init /\ [][NextClock]_vars

\* The lifecycle of sessions that have observers: the handlers of the lifecycle
\* and the websocket endpoint.
NextFinal ==
    \/ \E a \in Ids : create_assessment(a)
    \/ \E a \in Ids : start_assessment(a)
    \/ \E a \in Ids : complete_assessment(a)
    \/ \E w \in WebSockets, a \in Ids : ws_connect(w, a)
    \/ \E w \in WebSockets : client_close(w)
    \/ \E w \in WebSockets : ws_disconnect(w)

SpecFinal == Init /\ [][NextFinal]_vars

\* The hub under ingests of one body per session id: what a live update goes to
\* does not depend on the metrics of the body.
NextPublish ==
    \/ \E w \in WebSockets, a \in Ids : ws_connect(w, a)
    \/ \E w \in WebSockets : client_close(w)
    \/ \E w \in WebSockets : ws_disconnect(w)
    \/ \E a \in Ids, data \in { b \in Bodies : b.voice_metrics.confidence = 600 } :
          save_assessment_data(a, data)

SpecPublish == Init /\ [][NextPublish]_vars

\* ------------------------------------------------------------------ the ingest handler on the event loop
\* save_assessment_data is a coroutine.  From its first statement to the
\* send_text of the live update nothing suspends it: the INSERT is a blocking
\* call and the analyzers it awaits never wait.  send_text hands the frame to
\* the connection and may then suspend until the connection has taken it; other
\* handlers run meanwhile.

\* A connection with the frames written to it, the newest first.
transport_write_front(frames, frame) == << frame >> \o frames

\* send_text: the connection takes the frames in the order they are written.
transport_write(frames, frame) == Append(frames, frame)

\* One body per session id: the order of the frames does not depend on metrics.
LoopBodies == { b \in Bodies : b.voice_metrics.confidence = 600 }

\* save_assessment_data from its start to the suspension in send_text, or to its
\* return where nothing is sent.
ingest_begin(q, assessment_id, data) ==
    /\ flight[q].pc # "sending"
    /\ Len(assessment_data) < MaxRows
    /\ assessment_data' = db_save_assessment_data(assessment_data, data)
    /\ \E analysis \in analyze_realtime_data(data) :
       \E sent \in send_to_assessment(assessment_id) :
         LET ws == assessment_connections[assessment_id]
             rowid == Len(assessment_data) + 1
         IN  IF sent = "sent"
             THEN /\ Len(inbox[ws]) < MaxInbox
                  /\ inbox' = [ inbox EXCEPT ![ws] =
                                  Append(@, [ kind |-> "live-update",
                                              id |-> assessment_id ]) ]
                  /\ delivered' = [ delivered EXCEPT ![ws] =
                                      transport_write(@, rowid) ]
                  /\ flight' = [ flight EXCEPT ![q] =
                                   [ pc |-> "sending", id |-> assessment_id,
                                     under |-> data.assessment_id, ws |-> ws,
                                     analysis |-> << analysis >> ] ]
                  /\ UNCHANGED << response, accepted >>
             ELSE /\ flight' = [ flight EXCEPT ![q] = NoFlight ]
                  /\ response' = IF sent = "raised"
                                 THEN Response("data", assessment_id, 500, << >>)
                                 ELSE Response("data", assessment_id, 200,
                                               << analysis >>)
                  /\ accepted' = IF sent = "raised" THEN accepted
                                 ELSE [ accepted EXCEPT ![data.assessment_id] = @ + 1 ]
                  /\ UNCHANGED << inbox, delivered >>
    /\ UNCHANGED << assessments, recommendations, active_connections,
                    assessment_connections, sockets, now, pureVars, authVars, roomVars,
                    rateVars >>

\* save_assessment_data resumed in send_text: it returns, or the send raises
\* because the peer has gone meanwhile.
ingest_end(q) ==
    /\ flight[q].pc = "sending"
    /\ \E raised \in IF sockets[flight[q].ws].state = "open" THEN {FALSE}
                     ELSE BOOLEAN :
         /\ response' = IF raised
                        THEN Response("data", flight[q].id, 500, << >>)
                        ELSE Response("data", flight[q].id, 200, flight[q].analysis)
         /\ accepted' = IF raised THEN accepted
                        ELSE [ accepted EXCEPT ![flight[q].under] = @ + 1 ]
    /\ flight' = [ flight EXCEPT ![q] = NoFlight ]
    /\ UNCHANGED << assessments, assessment_data, recommendations, active_connections,
                    assessment_connections, sockets, inbox, now, delivered,
                    pureVars, authVars, roomVars, rateVars >>

\* Ingest requests in flight together, and the connections they send to, each
\* opened once (delivered is kept per connection).
NextLoop ==
    \/ \E w \in WebSockets, a \in Ids : ws_connect(w, a)
    \/ \E w \in WebSockets : client_close(w)
    \/ \E q \in Requests, a \in Ids, data \in LoopBodies : ingest_begin(q, a, data)
    \/ \E q \in Requests : ingest_end(q)

SpecLoop == Init /\ [][NextLoop]_vars

\* ------------------------------------------------------------------ rooms (backend/main.py)

\* The list without its first occurrence of the item: list.remove.
Remove(list, item) ==
    LET at == CHOOSE i \in 1 .. Len(list) :
                  list[i] = item /\ \A k \in 1 .. i - 1 : list[k] # item
    IN  SubSeq(list, 1, at - 1) \o SubSeq(list, at + 1, Len(list))

\* rooms with the entry of the id set, or popped where the list is empty.
RoomsWith(assessment_id, list) ==
    [ a \in IF list = << >> THEN DOMAIN rooms \ {assessment_id}
            ELSE DOMAIN rooms \cup {assessment_id} |->
        IF a = assessment_id THEN list ELSE rooms[a] ]

\* ws_room, up to its first receive_text: accept, and join the list of the room.
ws_room_accept(ws, assessment_id) ==
    /\ members[ws].state = "idle"
    /\ members' = [ members EXCEPT ![ws].state = "open", ![ws].room = assessment_id ]
    /\ rooms' = RoomsWith(assessment_id,
                          Append(Get(rooms, assessment_id, << >>), ws))
    /\ room_inbox' = [ room_inbox EXCEPT ![ws] = << >> ]
    /\ UNCHANGED << serverVars, pureVars, authVars, loopVars, rateVars >>

\* ws_room, the for loop over the snapshot of the room: the outcomes it may
\* have, each the inboxes after it and how it ended.  A client that is open is
\* sent the text.  Where the peer of a client has gone, send_text either drops
\* the frame, or raises WebSocketDisconnect, or raises another exception, as
\* the server in use has it; on a connection whose handler has ended it raises
\* a RuntimeError.  An exception ends the loop.
RECURSIVE forward(_, _, _, _)
forward(clients, ws, msg, inboxes) ==
    IF clients = << >> THEN { [ inbox |-> inboxes, end |-> "done" ] }
    ELSE LET client == Head(clients)
         IN  IF client = ws THEN forward(Tail(clients), ws, msg, inboxes)
             ELSE IF members[client].state = "open"
             THEN forward(Tail(clients), ws, msg,
                          [ inboxes EXCEPT ![client] = Append(@, msg) ])
             ELSE IF members[client].state = "gone"
             THEN forward(Tail(clients), ws, msg, inboxes)
                  \cup { [ inbox |-> inboxes, end |-> "WebSocketDisconnect" ],
                         [ inbox |-> inboxes, end |-> "error" ] }
             ELSE { [ inbox |-> inboxes, end |-> "error" ] }

\* ws_room, one turn of its loop: a text arrives from the client and is sent to
\* the others of the room.  WebSocketDisconnect out of a send is caught like
\* that of receive_text: the handler removes its own socket and returns; any
\* other exception ends the handler with its socket still in the list.
ws_room_receive(ws) ==
    LET assessment_id == members[ws].room
        msg == [ from |-> ws, room |-> assessment_id ]
    IN  /\ members[ws].state = "open"
        /\ members[ws].texts < MaxTexts
        /\ \E out \in forward(Get(rooms, assessment_id, << >>), ws, msg, room_inbox) :
             /\ \A c \in RoomSockets : Len(out.inbox[c]) <= MaxRoomInbox
             /\ room_inbox' = out.inbox
             /\ members' = [ members EXCEPT
                               ![ws].texts = @ + 1,
                               ![ws].state = IF out.end = "done" THEN "open"
                                             ELSE IF out.end = "error" THEN "ended"
                                             ELSE "idle",
                               ![ws].room = IF out.end = "WebSocketDisconnect"
                                            THEN "" ELSE @ ]
             /\ rooms' = IF out.end = "WebSocketDisconnect"
                         THEN RoomsWith(assessment_id, Remove(rooms[assessment_id], ws))
                         ELSE rooms
        /\ UNCHANGED << serverVars, pureVars, authVars, loopVars, rateVars >>

\* The client of a room goes away; its handler has not been told yet.
room_client_close(ws) ==
    /\ members[ws].state = "open"
    /\ members' = [ members EXCEPT ![ws].state = "gone" ]
    /\ UNCHANGED << rooms, room_inbox, serverVars, pureVars, authVars, loopVars, rateVars >>

\* ws_room, its except branch: receive_text raises WebSocketDisconnect.
ws_room_disconnect(ws) ==
    /\ members[ws].state = "gone"
    /\ rooms' = RoomsWith(members[ws].room, Remove(rooms[members[ws].room], ws))
    /\ members' = [ members EXCEPT ![ws].state = "idle", ![ws].room = "" ]
    /\ UNCHANGED << room_inbox, serverVars, pureVars, authVars, loopVars, rateVars >>

NextRooms ==
    \/ \E ws \in RoomSockets, a \in Ids : ws_room_accept(ws, a)
    \/ \E ws \in RoomSockets : ws_room_receive(ws)
    \/ \E ws \in RoomSockets : room_client_close(ws)
    \/ \E ws \in RoomSockets : ws_room_disconnect(ws)

SpecRooms == Init /\ [][NextRooms]_vars

\* ------------------------------------------------------------------ rate limiter (backend/main.py)
\* Times are whole seconds.

\* The seconds a timestamp stays in its bucket.
Window == 60

\* The purge of the middleware: [t for t in bucket if now - t < 60].
purge(bucket, t_now) == SelectSeq(bucket, LAMBDA t : t_now - t < Window)

\* The test of the middleware with > in place of >=.
bucket_full_strict(bucket) == Len(bucket) > RATE_LIMIT_PER_MINUTE

\* len(RATE_BUCKET[ip]) >= settings.RATE_LIMIT_PER_MINUTE.
bucket_full(bucket) == Len(bucket) >= RATE_LIMIT_PER_MINUTE

\* rate_limit_and_audit for a request of the host: purge, then 429, or record
\* the request and call the handler (answered 200 here).
rate_limit_and_audit(ip) ==
    LET bucket == purge(Get(RATE_BUCKET, ip, << >>), now)
        full == bucket_full(bucket)
    IN  /\ RATE_BUCKET' = [ h \in DOMAIN RATE_BUCKET \cup {ip} |->
                              IF h # ip THEN RATE_BUCKET[h]
                              ELSE IF full THEN bucket ELSE Append(bucket, now) ]
        /\ response' = Response("request", ip, IF full THEN 429 ELSE 200, << >>)
        /\ admissions' = IF full THEN admissions
                         ELSE [ admissions EXCEPT ![ip] = Append(@, now) ]
        /\ UNCHANGED << assessments, assessment_data, recommendations,
                        active_connections, assessment_connections, sockets, inbox,
                        now, accepted, pureVars, authVars, loopVars, roomVars >>

\* Time passes between requests: a second short of half a window, or half.
Elapse ==
    \E d \in {29, 30} :
        /\ now + d <= MaxClock
        /\ now' = now + d
        /\ UNCHANGED << assessments, assessment_data, recommendations,
                        active_connections, assessment_connections, sockets, inbox,
                        response, accepted, pureVars, extVars >>

NextRate ==
    \/ \E ip \in Hosts : rate_limit_and_audit(ip)
    \/ Elapse

SpecRate == Init /\ [][NextRate]_vars

\* ------------------------------------------------------------------ registration (simple_backend.py)
\* A string that the code looks into (an email, a password) is the sequence of
\* its characters.

Letters == {"a", "b", "i", "o", "t", "x", "T"}
Digits == {"1", "2", "3", "4", "5", "6"}

\* Every position from..to of the string holds a character of the class.
AllIn(str, from, to, class) == \A k \in from .. to : str[k] \in class

\* re.match(email_pattern, email) for the pattern
\* ^[a-zA-Z0-9._%+-]+@[a-zA-Z0-9.-]+\.[a-zA-Z]{2,}$ : some "@" and some later "."
\* cut the string into a local part, a domain and a top level of two letters or
\* more; "$" also matches before a newline that ends the string.
email_pattern_matches(email) ==
    LET n == IF Len(email) > 0 /\ email[Len(email)] = "\n"
             THEN Len(email) - 1 ELSE Len(email)
    IN  \E at \in 2 .. n : \E dot \in at + 2 .. n - 2 :
            /\ email[at] = "@"
            /\ email[dot] = "."
            /\ AllIn(email, 1, at - 1, Letters \cup Digits \cup {".", "_", "%", "+", "-"})
            /\ AllIn(email, at + 1, dot - 1, Letters \cup Digits \cup {".", "-"})
            /\ AllIn(email, dot + 1, n, Letters)

\* register, its validation of the body: 400 where it returns early, 0 where
\* the body passes.
register_validate(data) ==
    IF \E field \in {"name", "email", "password"} : field \notin DOMAIN data THEN 400
    ELSE IF ~email_pattern_matches(data.email) THEN 400
    ELSE IF Len(data.password) < 6 THEN 400
    ELSE 0

\* register, the role it stores.
role_of(data) ==
    LET role == Get(data, "role", "teacher")
    IN  IF role \notin {"admin", "evaluator", "teacher"} THEN "teacher" ELSE role

\* register's lookup with the names compared in place of the emails.
existing_user_by_name(db, data) ==
    \E i \in 1 .. Len(db) : db[i].name = data.name

\* register: existing_user is not None.
existing_user(db, data) ==
    \E i \in 1 .. Len(db) : db[i].email = data.email

\* register, the user it appends.  The id is a uuid4: one no other user has.
user_data(db, data) ==
    [ id |-> Len(db) + 1, name |-> data.name, email |-> data.email,
      role |-> role_of(data), password_hash |-> data.password ]

\* register up to its append: 400 or 409 where it returns, 0 where it goes on.
register_check(db, data) ==
    IF register_validate(data) # 0 THEN register_validate(data)
    ELSE IF existing_user(db, data) THEN 409
    ELSE 0

Answer(data, code) ==
    [ pc |-> "done", data |-> data, code |-> code, success |-> code = 200 ]

E1 == << "t", "@", "x", ".", "i", "o" >>
E2 == << "b", "@", "x", ".", "i", "o" >>
Secret == << "1", "2", "3", "4", "5", "6" >>

\* The bodies POST /api/auth/register is sent: valid ones for two emails, and
\* bodies with a field missing, a word that is no email, a short password and
\* a role the platform does not know.
RegBodies ==
    [ name : {"T"}, email : {E1, E2}, password : {Secret},
      role : {"teacher", "admin"} ]
    \cup { [ name |-> "T", email |-> E1, password |-> Secret ],
           [ name |-> "T", email |-> E2, password |-> Secret, role |-> "principal" ],
           [ name |-> "T", email |-> << "t", "x", ".", "i", "o" >>,
             password |-> Secret, role |-> "teacher" ],
           [ name |-> "T", email |-> E1, password |-> << "1", "2", "3" >>,
             role |-> "teacher" ],
           [ email |-> E1, password |-> Secret, role |-> "teacher" ] }

\* POST /api/auth/register, the whole handler for one request at a time.
register(r, data) ==
    LET code == register_check(users_db, data)
    IN  /\ users_db' = IF code = 0 THEN Append(users_db, user_data(users_db, data))
                       ELSE users_db
        /\ reg' = [ reg EXCEPT ![r] = Answer(data, IF code = 0 THEN 200 ELSE code) ]
        /\ UNCHANGED << serverVars, pureVars, loopVars, roomVars, rateVars >>

\* Requests served one after the other, as the test script sends them.
NextRegister == \E r \in Clients, data \in RegBodies : register(r, data)

SpecRegister == Init /\ [][NextRegister]_vars

\* register as the threads of the server run it (app.run serves each request on
\* a thread of its own): the handler up to its lookup in users_db, ...
register_begin(r, data) ==
    LET code == register_check(users_db, data)
    IN  /\ reg[r].pc # "checked"
        /\ reg' = [ reg EXCEPT ![r] =
                      IF code = 0
                      THEN [ pc |-> "checked", data |-> data, code |-> 0,
                             success |-> FALSE ]
                      ELSE Answer(data, code) ]
        /\ UNCHANGED << users_db, serverVars, pureVars, loopVars, roomVars, rateVars >>

\* ... and from its append on.
register_finish(r) ==
    /\ reg[r].pc = "checked"
    /\ users_db' = Append(users_db, user_data(users_db, reg[r].data))
    /\ reg' = [ reg EXCEPT ![r] = Answer(reg[r].data, 200) ]
    /\ UNCHANGED << serverVars, pureVars, loopVars, roomVars, rateVars >>

\* Two clients whose requests may be in flight together.
NextRegisterThreads ==
    \/ \E r \in Clients, data \in RegBodies : register_begin(r, data)
    \/ \E r \in Clients : register_finish(r)

SpecRegisterThreads == Init /\ [][NextRegisterThreads]_vars

\* ------------------------------------------------------------------ claims: scoring

\* C6.  For every score the tier is eligible iff score >= 85, needs-improvement
\* iff 70 <= score < 85, not-eligible iff score < 70.
C6_EligibilityTiers ==
    call.fn = "_determine_eligibility" =>
        LET score == call.args[1]
            tier == ret[1]
        IN  /\ tier \in {"eligible", "needs-improvement", "not-eligible"}
            /\ tier = "eligible" <=> score >= 850
            /\ tier = "needs-improvement" <=> (700 <= score /\ score < 850)
            /\ tier = "not-eligible" <=> score < 700

\* The boundary score 85.0 has been classified, as eligible.
C6_Witness ==
    /\ call.fn = "_determine_eligibility"
    /\ call.args[1] = 850
    /\ ret[1] = "eligible"

\* The snapshot has the eight metrics the score reads, each in [0,100].
MetricsInRange(metrics) ==
    /\ HasScoreKeys(metrics)
    /\ \A gk \in ScoreKeys : metrics[gk[1]][gk[2]] \in 0 .. 1000

\* A thousand times the blend of the claim, from its formula:
\* 0.4*(0.3c + 0.4a + 0.3cl) + 0.3*(0.6e + 0.4x) + 0.3*(0.4i + 0.3u + 0.3s).
ClaimedBlend(metrics) ==
    LET v == metrics.voice_metrics
        f == metrics.facial_metrics
        t == metrics.teaching_metrics
    IN  12 * v.confidence + 16 * v.audibility + 12 * v.clarity
        + 18 * f.engagement_level + 12 * f.expression_variety
        + 12 * t.interaction_level + 9 * t.example_usage + 9 * t.student_engagement

\* C7.  For a snapshot whose metrics lie in [0,100] the overall score is the
\* weighted blend of the claim rounded to one decimal (a nearest tenth of it),
\* and it lies in [0,100].
C7_OverallScore ==
    (call.fn = "_calculate_overall_score" /\ MetricsInRange(call.args[1])) =>
        LET blend == ClaimedBlend(call.args[1])
            o == ret[1]
        IN  /\ o.raised = ""
            /\ 100 * o.score - blend \in -50 .. 50
            /\ o.score \in 0 .. 1000

\* A snapshot in range whose blend is no whole tenth has been scored.
C7_Witness ==
    /\ call.fn = "_calculate_overall_score"
    /\ MetricsInRange(call.args[1])
    /\ ClaimedBlend(call.args[1]) % 100 \notin {0, 50}
    /\ ret[1].score > 0
    /\ ret[1].score < 1000

\* The rule table of the claim, in its order: the group and the key of the
\* metric, the threshold it must be under, and the recommendation.
RuleTable ==
    << [ group |-> "voice_metrics", key |-> "confidence", under |-> 700,
         rec |-> Rec("voice", "high", "Improve Voice Confidence") ],
       [ group |-> "voice_metrics", key |-> "audibility", under |-> 750,
         rec |-> Rec("voice", "high", "Enhance Voice Projection") ],
       [ group |-> "facial_metrics", key |-> "engagement_level", under |-> 700,
         rec |-> Rec("engagement", "medium", "Increase Facial Expressiveness") ],
       [ group |-> "teaching_metrics", key |-> "interaction_level", under |-> 800,
         rec |-> Rec("teaching", "medium", "Increase Student Interaction") ],
       [ group |-> "teaching_metrics", key |-> "example_usage", under |-> 750,
         rec |-> Rec("teaching", "low", "Use More Examples") ] >>

RuleFires(rule, metrics) ==
    /\ rule.group \in DOMAIN metrics
    /\ rule.key \in DOMAIN metrics[rule.group]
    /\ metrics[rule.group][rule.key] < rule.under

\* The recommendations of the rules that fire, each once, in the table's order.
FiredRules(metrics) ==
    LET fired == SelectSeq(RuleTable, LAMBDA rule : RuleFires(rule, metrics))
    IN  [ i \in 1 .. Len(fired) |-> fired[i].rec ]

\* C8.  recommend returns exactly the recommendations of the rules of the table
\* whose condition holds, each once, in the table's order; each rule is decided
\* by its own metric alone.
C8_Recommendations ==
    call.fn = "generate_recommendations" =>
        ret[1] = FiredRules(call.args[1])

\* Rules 1, 3 and 5 fired while rules 2 and 4, their metrics at the threshold,
\* did not.
C8_Witness ==
    /\ call.fn = "generate_recommendations"
    /\ Len(ret[1]) = 3
    /\ ret[1][1].title = "Improve Voice Confidence"
    /\ ret[1][2].title = "Increase Facial Expressiveness"
    /\ ret[1][3].title = "Use More Examples"
    /\ call.args[1].voice_metrics.audibility = 750
    /\ call.args[1].teaching_metrics.interaction_level = 800

Clamp(lo, hi, x) == IF x < lo THEN lo ELSE IF x > hi THEN hi ELSE x

\* C10.  The derived teaching metrics are interaction_level =
\* clamp(0,100,(confidence + engagement_level)/2), example_usage =
\* clamp(0,100, clarity + 20) and student_engagement =
\* clamp(0,100, engagement_level + 15), from the facial metric named
\* engagement_level (the interaction level to within the rounding of a tenth).
C10_TeachingMetrics ==
    ( /\ call.fn = "_calculate_teaching_metrics"
      /\ {"confidence", "clarity"} \subseteq DOMAIN call.args[1]
      /\ "engagement_level" \in DOMAIN call.args[2] ) =>
        LET voice == call.args[1]
            facial == call.args[2]
            t == ret[1]
        IN  /\ 2 * t.interaction_level
                 - Clamp(0, 2000, voice.confidence + facial.engagement_level)
                      \in -1 .. 1
            /\ t.example_usage = Clamp(0, 1000, voice.clarity + 200)
            /\ t.student_engagement = Clamp(0, 1000, facial.engagement_level + 150)

\* ------------------------------------------------------------------ claims: lifecycle

StatusOf(assessment_id) ==
    IF assessment_id \in DOMAIN assessments THEN assessments[assessment_id].status
    ELSE "absent"

RecommendationsOf(assessment_id) ==
    SelectSeq(recommendations, LAMBDA row : row.assessment_id = assessment_id)

\* C1.  A lifecycle call inconsistent with the session's state fails and leaves
\* the state unchanged: complete on a created, never started session fails, start
\* on a completed session fails, and a completed session never runs again.
\* (Every step of Spec is a request, answered by response'.)
C1_InvalidTransition ==
    [][ \A a \in Ids :
          /\ (response'.op = "complete" /\ response'.id = a /\ StatusOf(a) = "pending")
                => (response'.code # 200 /\ assessments' = assessments)
          /\ (response'.op = "start" /\ response'.id = a /\ StatusOf(a) = "completed")
                => (response'.code # 200 /\ assessments' = assessments)
          /\ StatusOf(a) = "completed" => StatusOf(a)' = "completed" ]_vars

\* C2.  An ingest for a session that is created but not running, or that is
\* completed, fails and stores no sample.
C2_IngestOnlyWhileRunning ==
    [][ \A a \in Ids :
          (response'.op = "data" /\ response'.id = a
              /\ StatusOf(a) \in {"pending", "completed"})
            => (response'.code # 200 /\ assessment_data' = assessment_data) ]_vars

\* C3.  An operation addressed to an id that was never created is answered
\* NotFound (404) and mutates nothing: no row of samples and no row of
\* recommendations is ever stored under such an id.
C3_NotFound ==
    \A a \in Ids \ DOMAIN assessments :
        /\ DataPoints(assessment_data, a) = << >>
        /\ RecommendationsOf(a) = << >>
        /\ response.id = a => response.code = 404

\* C4.  The number of samples held for a session equals the number of its
\* ingest calls that were reported accepted: a call answered with an error
\* contributes no sample.  (Completion adds and removes no sample, so the count
\* at completion is the count after the session's last ingest.)
C4_CountEqualsAccepted ==
    \A a \in Ids : Len(DataPoints(assessment_data, a)) = accepted[a]

\* The values of one voice metric over the rows of a session.
MetricValues(rows, key) == [ i \in 1 .. Len(rows) |-> rows[i].voice_metrics[key] ]

\* C5.  After ingesting v1..vn, n >= 1, the aggregated value of a metric in the
\* snapshot of the final report is sum(v1..vn)/n (to within a tenth).
C5_AggregateIsMean ==
    \A a \in Ids :
        LET rows == DataPoints(assessment_data, a)
            n == Len(rows)
        IN  (response.op = "complete" /\ response.id = a /\ response.code = 200
                /\ n >= 1) =>
              LET snapshot == response.body[1].detailed_analysis
              IN  /\ "voice_metrics" \in DOMAIN snapshot
                  /\ \A key \in {"confidence", "volume", "clarity", "audibility"} :
                        n * snapshot.voice_metrics[key]
                            - SeqSum(MetricValues(rows, key)) \in -n .. n

\* C9.  When no recommendation rule fires for the final snapshot, the
\* recommendations of the result are the empty sequence.
C9_NoRuleNoRecommendation ==
    (response.op = "complete" /\ response.code = 200) =>
        LET result == response.body[1]
        IN  FiredRules(result.detailed_analysis) = << >>
                => result.recommendations = << >>

\* ------------------------------------------------------------------ claims: robustness

\* Every number of a dict of metrics lies in [0,100] (emotion is a label).
InRange(d) ==
    \A k \in DOMAIN d \ {"emotion"} : d[k] \in 0 .. 1000

\* C11.  Every metric value stored for a session lies in [0,100] whatever the
\* ingested body carries (out-of-range input is clamped, not rejected), and so
\* does every derived teaching metric of the analysis an ingest answers with.
C11_StoredMetricsClamped ==
    /\ \A i \in 1 .. Len(assessment_data) :
          /\ InRange(assessment_data[i].voice_metrics)
          /\ InRange(assessment_data[i].facial_metrics)
          /\ InRange(assessment_data[i].teaching_metrics)
    /\ (response.op = "data" /\ response.code = 200) =>
          InRange(response.body[1].teaching_metrics)

\* A snapshot with each missing metric replaced by its fallback default.
WithDefaults(metrics) ==
    [ g \in {"voice_metrics", "facial_metrics", "teaching_metrics"} |->
        [ k \in DOMAIN _get_fallback_metrics[g] |->
            Get(Get(metrics, g, NoDict), k, _get_fallback_metrics[g][k]) ] ]

\* C12.  Scoring a snapshot with a metric key missing never throws: each missing
\* metric takes its fallback default and the score is the blend of the formula
\* over the completed snapshot, rounded to one decimal.
C12_MissingKeyDefaults ==
    (call.fn = "_calculate_overall_score" /\ ~HasScoreKeys(call.args[1])) =>
        /\ ret[1].raised = ""
        /\ 100 * ret[1].score - ClaimedBlend(WithDefaults(call.args[1])) \in -50 .. 50

\* C13.  Completing a session with no ingested sample succeeds and the analysis
\* of its result carries the neutral baseline: confidence 70, volume 65,
\* clarity 75, audibility 80, engagement_level 70, expression_variety 65 and
\* the emotion neutral.
C13_EmptySessionBaseline ==
    \A a \in Ids :
        (response.op = "complete" /\ response.id = a
            /\ DataPoints(assessment_data, a) = << >>) =>
          /\ response.code = 200
          /\ LET snapshot == response.body[1].detailed_analysis
             IN  /\ {"voice_metrics", "facial_metrics"} \subseteq DOMAIN snapshot
                 /\ snapshot.voice_metrics = _get_fallback_metrics.voice_metrics
                 /\ snapshot.facial_metrics = _get_fallback_metrics.facial_metrics

\* C14.  A start on a session that is already running is answered success and
\* leaves the whole record, its state and its recorded start time included, as
\* the first start left it.
C14_StartIdempotent ==
    [][ \A a \in Ids :
          (response'.op = "start" /\ response'.id = a /\ StatusOf(a) = "in-progress")
            => (response'.code = 200 /\ assessments' = assessments) ]_vars

\* ------------------------------------------------------------------ claims: the hub

\* The connections open on /ws/{assessment_id}: the observers of the session.
Subscribers(assessment_id) ==
    { w \in WebSockets : sockets[w].state = "open" /\ sockets[w].path = assessment_id }

LiveUpdate(assessment_id) == [ kind |-> "live-update", id |-> assessment_id ]

\* The step is an ingest: only save_assessment_data adds a row, and it answers
\* under the id of its path.
Ingest == Len(assessment_data') > Len(assessment_data)

\* The step delivers the live update of the ingest to the connection.
Delivered(w) == inbox'[w] = Append(inbox[w], LiveUpdate(response'.id))

\* C15.  An ingest delivers its live update to every connection subscribed to
\* the session at the moment of the call, however many they are, and to no
\* other connection.
C15_PublishToAllSubscribers ==
    [][ Ingest =>
          /\ \A w \in Subscribers(response'.id) : Delivered(w)
          /\ \A w \in WebSockets \ Subscribers(response'.id) : inbox'[w] = inbox[w]
      ]_vars

\* C16.  A connection that is not open receives nothing, and when the handler of
\* a departed connection runs its disconnect, every session keeps the connection
\* its live updates go to, unless that was the departed one.
C16_DisconnectLeavesOthers ==
    [][ \A w \in WebSockets :
          /\ (sockets[w].state # "open" /\ sockets'[w].state # "open")
                => inbox'[w] = inbox[w]
          /\ (sockets[w].state = "gone" /\ sockets'[w].state = "idle") =>
                \A a \in DOMAIN assessment_connections :
                    assessment_connections[a] # w =>
                        /\ a \in DOMAIN assessment_connections'
                        /\ assessment_connections'[a] = assessment_connections[a]
      ]_vars

\* C17.  An ingest whose sample was stored answers success, whatever became of
\* the delivery of its live update.
C17_DeliveryFailureNotPropagated ==
    [][ Ingest => response'.code = 200 ]_vars

\* The connections of the list of active connections.
Active(list) == { list[i] : i \in 1 .. Len(list) }

\* C18.  When the delivery of a live update to the connection of the session
\* fails, that connection is unsubscribed, every open connection of the session
\* still receives the update, and no open connection is removed.
C18_FailedConnectionDropped ==
    [][ ( /\ Ingest
          /\ response'.id \in DOMAIN assessment_connections
          /\ sockets[assessment_connections[response'.id]].state # "open" ) =>
          /\ response'.id \notin DOMAIN assessment_connections'
          /\ assessment_connections[response'.id] \notin Active(active_connections')
          /\ \A w \in Subscribers(response'.id) : Delivered(w)
          /\ \A w \in WebSockets :
                (sockets[w].state = "open" /\ w \in Active(active_connections))
                    => w \in Active(active_connections')
      ]_vars

\* C19.  An ingest for a session id that has no connection registered raises no
\* error, sends nothing and leaves the registry of connections unchanged.
C19_NoSubscriberNoOp ==
    [][ (Ingest /\ response'.id \notin DOMAIN assessment_connections) =>
          /\ response'.code = 200
          /\ inbox' = inbox
          /\ assessment_connections' = assessment_connections
          /\ active_connections' = active_connections
      ]_vars

\* An ingest for a session without a connection was answered success while
\* another session had an open connection, which received nothing.
C19_Witness ==
    /\ response.op = "data"
    /\ response.code = 200
    /\ response.id \notin DOMAIN assessment_connections
    /\ \E a \in DOMAIN assessment_connections :
          /\ sockets[assessment_connections[a]].state = "open"
          /\ inbox[assessment_connections[a]] = << >>
    /\ Len(assessment_data) = 1

\* The step completes a session: only complete_assessment adds rows of
\* recommendations, and it answers under the id of its path.
Completes == Len(recommendations') > Len(recommendations)

\* C20.  When a running session completes, the final result is published to
\* each of its observers, once, and after it the hub holds no subscriber for
\* the session.
C20_FinalResultPublished ==
    [][ \A a \in Ids :
          (Completes /\ response'.id = a /\ StatusOf(a) = "in-progress") =>
            /\ \A w \in Subscribers(a) :
                  inbox'[w] = Append(inbox[w], [ kind |-> "final-result", id |-> a ])
            /\ a \notin DOMAIN assessment_connections'
      ]_vars

\* ------------------------------------------------------------------ claims: persistence

\* C21.  The result of a session is handed to persistence once: after any
\* sequence of complete calls the rows of recommendations stored for a session
\* are those of a single store, no row of them stored twice.
C21_StoredOnce ==
    \A a \in Ids :
        LET rows == RecommendationsOf(a)
        IN  \A i, j \in 1 .. Len(rows) : i # j => rows[i] # rows[j]

\* C22.  When the store of the result fails during the complete of a running
\* session (the step is a complete that stored no row), the failure is logged
\* only: the session still reaches completed and the caller still gets the
\* result.
C22_PersistenceFailureLoggedOnly ==
    [][ \A a \in Ids :
          ( /\ response'.op = "complete" /\ response'.id = a
            /\ recommendations' = recommendations
            /\ StatusOf(a) = "in-progress" ) =>
            /\ StatusOf(a)' = "completed"
            /\ response'.code = 200
            /\ Len(response'.body) = 1
      ]_vars

\* ------------------------------------------------------------------ claims: one session and the others

\* C23.  An ingest addressed to a session, answered success or error, leaves
\* every other session as it was: the samples stored under another id, the
\* status of another session, the connection another session's live updates go
\* to and what the connections of other paths have received.
C23_OtherSessionsUntouched ==
    [][ Ingest =>
          \A b \in Ids \ {response'.id} :
              /\ DataPoints(assessment_data', b) = DataPoints(assessment_data, b)
              /\ StatusOf(b)' = StatusOf(b)
              /\ (b \in DOMAIN assessment_connections) =>
                    /\ b \in DOMAIN assessment_connections'
                    /\ assessment_connections'[b] = assessment_connections[b]
              /\ \A w \in Subscribers(b) : inbox'[w] = inbox[w]
      ]_vars

\* ------------------------------------------------------------------ claims: registration

\* A body with a name, an email of the form local@domain.tld, a password of six
\* characters or more and a role of the platform.
ValidRegistration(data) ==
    /\ {"name", "email", "password", "role"} \subseteq DOMAIN data
    /\ data.role \in {"admin", "evaluator", "teacher"}
    /\ Len(data.password) >= 6
    /\ \E at \in 2 .. Len(data.email) - 4 :
          /\ data.email[at] = "@"
          /\ data.email[Len(data.email) - 2] = "."
          /\ \A k \in 1 .. Len(data.email) :
                k \notin {at, Len(data.email) - 2} => data.email[k] \in Letters

EmailsOf(db) == [ i \in 1 .. Len(db) |-> db[i].email ]

Registered(db, email) == \E i \in 1 .. Len(db) : db[i].email = email

C28_ConcurrentRegistration ==
    /\ \A i, j \in 1 .. Len(users_db) :
          i # j => users_db[i].email # users_db[j].email
    /\ \A r1, r2 \in Clients :
          (r1 # r2 /\ reg[r1].code = 200 /\ reg[r2].code = 200)
              => reg[r1].data.email # reg[r2].data.email

\* ------------------------------------------------------------------ claims: ordering

\* C25.  The live updates written to a connection are in the order in which
\* their samples were ingested (the order of the rowids), also with two ingest
\* requests in flight together.
C25_LiveUpdatesFifo ==
    \A w \in WebSockets :
        \A i, j \in 1 .. Len(delivered[w]) :
            i < j => delivered[w][i] < delivered[w][j]

\* Two ingest requests are in flight together, each suspended in its send to
\* the same connection, which has been written both live updates.
C25_Witness ==
    /\ flight["q1"].pc = "sending"
    /\ flight["q2"].pc = "sending"
    /\ flight["q1"].ws = flight["q2"].ws
    /\ Len(delivered[flight["q1"].ws]) = 2

\* ------------------------------------------------------------------ claims: rooms

\* C26.  The registry holds no ended connection and no empty per-session set:
\* every list of rooms is non-empty and lists no WebSocket whose handler has
\* terminated.
C26_NoEndedConnectionKept ==
    \A a \in DOMAIN rooms :
        /\ rooms[a] # << >>
        /\ \A i \in 1 .. Len(rooms[a]) :
              members[rooms[a][i]].state \notin {"idle", "ended"}

\* The step is the handler of the WebSocket taking a text of its client.
Forwards(ws) == members'[ws].texts = members[ws].texts + 1

\* C30.  A text received from a member of a room is forwarded once to every
\* other connection open in the same room at that moment, and to no other
\* WebSocket: not to the sender, not to a connection of another room.
C30_RoomBroadcast ==
    [][ \A ws \in RoomSockets :
          Forwards(ws) =>
            \A c \in RoomSockets :
                IF c # ws /\ members[c].state = "open"
                          /\ members[c].room = members[ws].room
                THEN room_inbox'[c] =
                        Append(room_inbox[c],
                               [ from |-> ws, room |-> members[ws].room ])
                ELSE room_inbox'[c] = room_inbox[c]
      ]_vars

\* ------------------------------------------------------------------ claims: the order of complete

\* The kinds of the messages a connection has been sent.
KindsOf(w) == { inbox[w][i].kind : i \in 1 .. Len(inbox[w]) }

\* C27.  A session is marked completed only after its final result has been
\* broadcast and handed to persistence: in the step that makes it completed
\* its result is stored with its row and its recommendations, and each of its
\* observers has been sent the final result.
C27_CompletedAfterBroadcastAndStore ==
    [][ \A a \in Ids :
          (StatusOf(a) # "completed" /\ StatusOf(a)' = "completed") =>
            /\ Len(assessments'[a].raw_data) = 1
            /\ \E i \in 1 .. Len(recommendations') :
                  recommendations'[i].assessment_id = a
            /\ \A w \in Subscribers(a) : "final-result" \in KindsOf(w)'
      ]_vars

\* ------------------------------------------------------------------ claims: rate limiter

\* The admitted requests of the host in the window of 60 seconds ending at t.
AdmittedWithin(ip, t) ==
    Cardinality({ i \in 1 .. Len(admissions[ip]) :
                    admissions[ip][i] <= t /\ t - admissions[ip][i] < Window })

\* The step is a request (time stands still in it).
Request == now' = now

====
